---------------------------- MODULE Spec2Model ----------------------------
(***************************************************************************)
(* A model of rust-opentimestamps: the byte codec (ser.rs), the operation  *)
(* catalog (op.rs), the attestation catalog (attestation.rs), the          *)
(* timestamp tree parser / serializer (timestamp.rs) and the detached-file *)
(* envelope (ser.rs).                                                      *)
(*                                                                         *)
(* The library is sequential: every function is modelled by an operator of *)
(* the same name, computed as the code computes it, and every action is    *)
(* one call of a public function by a client.  A Deserializer over a       *)
(* reader is the pair (s, pos): the bytes of the stream and the number of  *)
(* bytes consumed so far.  A usize is a 64-bit vector, least significant   *)
(* bit first, so that shifts keep the width of the machine word.           *)
(***************************************************************************)
EXTENDS Integers, Sequences, FiniteSets, TLC

VARIABLES
    overflow_checks,  \* the build: TRUE = arithmetic overflow checks on (debug)
    pc,               \* where the client, or the call in progress, stands
    arg,              \* the value argument of the call, or what the client remembers
    input,            \* the bytes of the reader handed to the library
    consumed,         \* the number of bytes the Deserializer has consumed
    stack,            \* the active calls of deserialize_step_recurse, innermost last
    returned,         \* the Step a call has just returned: <<>> or <<its place in nodes>>
    nodes,            \* the Steps built so far; a Step's `next` lists places in nodes
    file,             \* the locals of from_reader, then the file it returned
    result,           \* what the last read call returned
    work,             \* the active calls of serialize_step_recurse, innermost last
    output            \* the bytes written so far by the last write call

parser == <<consumed, stack, returned, nodes, file, work>>

vars == <<overflow_checks, pc, arg, input, result, output, parser>>

Byte == 0 .. 255

None == [none |-> TRUE]

----------------------------------------------------------------------------
(* usize: 64 bits, index 1 is the least significant bit.                   *)

WordBits == 64

Word == 1 .. WordBits

\* The largest bit index whose weight the checker's integers can hold.
NatBits == 30

U64FromNat(n) ==
    [i \in Word |-> IF i <= NatBits THEN (n \div (2 ^ (i - 1))) % 2 ELSE 0]

U64Fits(b) == \A i \in (NatBits + 1) .. WordBits : b[i] = 0

RECURSIVE BitsToNat(_, _, _)
BitsToNat(b, lo, hi) ==
    IF lo > hi THEN 0 ELSE b[lo] + 2 * BitsToNat(b, lo + 1, hi)

\* The value of b as an integer; meaningful when U64Fits(b).
U64ToNat(b) == BitsToNat(b, 1, NatBits)

U64IsZero(b) == \A i \in Word : b[i] = 0

\* n > k and n < k for a small constant k
U64Gt(b, k) == ~U64Fits(b) \/ U64ToNat(b) > k

U64Lt(b, k) == U64Fits(b) /\ U64ToNat(b) < k

\* n >> k
U64Shr(b, k) == [i \in Word |-> IF i + k <= WordBits THEN b[i + k] ELSE 0]

\* n << k for 0 <= k < 64: the bits shifted past the top are lost
U64Shl(b, k) == [i \in Word |-> IF i - k >= 1 THEN b[i - k] ELSE 0]

\* a | b
U64Or(a, b) == [i \in Word |-> IF a[i] = 1 \/ b[i] = 1 THEN 1 ELSE 0]

\* n as u8
U64AsU8(b) == BitsToNat(b, 1, 8)

\* the number of significant bits of n (0 for n = 0)
U64BitLen(b) ==
    IF U64IsZero(b) THEN 0 ELSE CHOOSE i \in Word : b[i] = 1 /\ \A j \in (i + 1) .. WordBits : b[j] = 0

----------------------------------------------------------------------------
(* Results and errors (error.rs).                                          *)

Ok(v, pos) == [ok |-> TRUE, val |-> v, pos |-> pos]

Fail(e, pos) == [ok |-> FALSE, err |-> e, pos |-> pos]

Err(kind, info) == [kind |-> kind, info |-> info]

\* A panic of the process: no Error value is returned.
Panic(what) == [kind |-> "panic", info |-> what]

----------------------------------------------------------------------------
(* ser.rs: Deserializer.                                                   *)

\* Read::read_exact of n bytes: a short read is an Io error (UnexpectedEof),
\* after the reader has been drained.
read_exact(s, pos, n) ==
    IF pos + n <= Len(s)
    THEN Ok(SubSeq(s, pos + 1, pos + n), pos + n)
    ELSE Fail(Err("Io", "UnexpectedEof"), Len(s))

read_byte(s, pos) ==
    LET r == read_exact(s, pos, 1)
    IN  IF r.ok THEN Ok(r.val[1], r.pos) ELSE r

\* uint_accumulate without the mask `& 0x7f`
uint_accumulate_NoMask(ret, byte, shift) ==
    U64Or(ret, U64Shl(U64FromNat(byte), shift % WordBits))

\* One round of the loop of read_uint: `ret |= ((byte & 0x7f) as usize) << shift`.
\* A shift of 64 or more panics when overflow checks are on, and is taken
\* modulo 64 when they are off.
uint_accumulate(ret, byte, shift) ==
    U64Or(ret, U64Shl(U64FromNat(byte % 128), shift % WordBits))

RECURSIVE read_uint_loop(_, _, _, _)
read_uint_loop(s, pos, ret, shift) ==
    LET r == read_byte(s, pos)
    IN  IF ~r.ok THEN r
        ELSE IF shift >= WordBits /\ overflow_checks
        THEN Fail(Panic("attempt to shift left with overflow"), r.pos)
        ELSE LET ret2 == uint_accumulate(ret, r.val, shift)
             IN  IF r.val < 128
                 THEN Ok(ret2, r.pos)
                 ELSE read_uint_loop(s, r.pos, ret2, shift + 7)

read_uint(s, pos) == read_uint_loop(s, pos, U64FromNat(0), 0)

\* vec![0; n] followed by read_exact: a length above isize::MAX panics with a
\* capacity overflow; any other length the stream cannot supply is a short read.
read_fixed_bytes(s, pos, n) ==
    IF n[WordBits] = 1 THEN Fail(Panic("capacity overflow"), pos)
    ELSE IF ~U64Fits(n) THEN Fail(Err("Io", "UnexpectedEof"), Len(s))
    ELSE read_exact(s, pos, U64ToNat(n))

read_bytes(s, pos, min, max) ==
    LET n == read_uint(s, pos)
    IN  IF ~n.ok THEN n
        ELSE IF U64Lt(n.val, min) \/ U64Gt(n.val, max)
        THEN Fail(Err("BadLength", [min |-> min, max |-> max, val |-> n.val]), n.pos)
        ELSE read_fixed_bytes(s, n.pos, n.val)

\* check_eof that finds nothing wrong with bytes left in the reader
check_eof_Lenient(s, pos) == Ok(None, pos)

check_eof(s, pos) ==
    IF pos >= Len(s) THEN Ok(None, pos) ELSE Fail(Err("TrailingBytes", None), pos + 1)

----------------------------------------------------------------------------
(* ser.rs: Serializer.  A writer into a Vec never fails, so every write    *)
(* operator is the byte sequence it appends.                               *)

write_byte(byte) == <<byte>>

write_fixed_bytes(data) == data

\* uint_byte with `n >= 0x7f` for `n > 0x7f`
uint_byte_Ge(n) ==
    IF U64Gt(n, 126) THEN (U64AsU8(n) % 128) + 128 ELSE U64AsU8(n)

\* the byte one round of the loop of write_uint writes
uint_byte(n) ==
    IF U64Gt(n, 127) THEN (U64AsU8(n) % 128) + 128 ELSE U64AsU8(n)

RECURSIVE write_uint_loop(_)
write_uint_loop(n) ==
    IF U64IsZero(n) THEN <<>>
    ELSE write_byte(uint_byte(n)) \o write_uint_loop(U64Shr(n, 7))

write_uint(n) ==
    IF U64IsZero(n) THEN write_byte(0) ELSE write_uint_loop(n)

write_bytes(data) == write_uint(U64FromNat(Len(data))) \o write_fixed_bytes(data)

----------------------------------------------------------------------------
(* hex.rs: Hexed.  Two characters of CHARS per byte, as ASCII codes.       *)

CHARS == <<48, 49, 50, 51, 52, 53, 54, 55, 56, 57, 97, 98, 99, 100, 101, 102>>

\* hex_byte with the low nibble first
hex_byte_LowFirst(byte) == <<CHARS[(byte % 16) + 1], CHARS[(byte \div 16) + 1]>>

hex_byte(byte) == <<CHARS[(byte \div 16) + 1], CHARS[(byte % 16) + 1]>>

\* `for byte in self.0 { write CHARS[byte >> 4]; write CHARS[byte & 0x0f] }`
Hexed(bytes) ==
    [i \in 1 .. 2 * Len(bytes) |-> hex_byte(bytes[(i + 1) \div 2])[2 - (i % 2)]]

----------------------------------------------------------------------------
(* op.rs: the operation catalog.  An Op is [kind, data]; data is the       *)
(* payload of Append and Prepend and empty for the unary operations.       *)

MAX_OP_LENGTH == 4096

UnaryOp(kind) == [kind |-> kind, data |-> <<>>]

BinaryOp(kind, data) == [kind |-> kind, data |-> data]

op_tag(op) ==
    CASE op.kind = "Sha1" -> 2
      [] op.kind = "Sha256" -> 8
      [] op.kind = "Ripemd160" -> 3
      [] op.kind = "Hexlify" -> 243
      [] op.kind = "Reverse" -> 242
      [] op.kind = "Append" -> 240
      [] op.kind = "Prepend" -> 241

\* op_payload that takes an empty payload
op_payload_MinZero(s, pos) == read_bytes(s, pos, 0, MAX_OP_LENGTH)

\* the payload of a binary op: read_bytes(1, MAX_OP_LENGTH)
op_payload(s, pos) == read_bytes(s, pos, 1, MAX_OP_LENGTH)

deserialize_with_tag(s, pos, tag) ==
    CASE tag = 2 -> Ok(UnaryOp("Sha1"), pos)
      [] tag = 8 -> Ok(UnaryOp("Sha256"), pos)
      [] tag = 3 -> Ok(UnaryOp("Ripemd160"), pos)
      [] tag = 243 -> Ok(UnaryOp("Hexlify"), pos)
      [] tag = 242 -> Ok(UnaryOp("Reverse"), pos)
      [] tag = 240 ->
            LET r == op_payload(s, pos)
            IN  IF r.ok THEN Ok(BinaryOp("Append", r.val), r.pos) ELSE r
      [] tag = 241 ->
            LET r == op_payload(s, pos)
            IN  IF r.ok THEN Ok(BinaryOp("Prepend", r.val), r.pos) ELSE r
      [] OTHER -> Fail(Err("BadOpTag", tag), pos)

op_deserialize(s, pos) ==
    LET t == read_byte(s, pos)
    IN  IF t.ok THEN deserialize_with_tag(s, t.pos, t.val) ELSE t

\* op_serialize that writes a payload without its length
op_serialize_Bare(op) ==
    write_byte(op_tag(op)) \o write_fixed_bytes(op.data)

op_serialize(op) ==
    write_byte(op_tag(op))
        \o (IF op.kind = "Append" THEN write_bytes(op.data) ELSE <<>>)
        \o (IF op.kind = "Prepend" THEN write_bytes(op.data) ELSE <<>>)

\* The hash functions are those of the crypto crate.  The model keeps what
\* the library relies on: the result is a function of the algorithm and the
\* input, and has the length the code allocates for it.
hash_mix(bytes, seed) ==
    IF bytes = <<>> THEN seed
    ELSE (seed + 31 * Len(bytes) + 7 * bytes[1] + 13 * bytes[Len(bytes)]
               + 17 * bytes[(Len(bytes) + 1) \div 2]) % 65521

hasher(seed, len, bytes) ==
    LET h == hash_mix(bytes, seed)
    IN  [i \in 1 .. len |-> (h * i + seed + (h \div 256)) % 256]

reverse(bytes) == [i \in 1 .. Len(bytes) |-> bytes[Len(bytes) + 1 - i]]

execute(op, bytes) ==
    CASE op.kind = "Sha1" -> hasher(1, 20, bytes)
      [] op.kind = "Sha256" -> hasher(2, 32, bytes)
      [] op.kind = "Ripemd160" -> hasher(3, 20, bytes)
      [] op.kind = "Hexlify" -> Hexed(bytes)
      [] op.kind = "Reverse" -> reverse(bytes)
      [] op.kind = "Append" -> bytes \o op.data
      [] op.kind = "Prepend" -> op.data \o bytes

----------------------------------------------------------------------------
(* attestation.rs: the attestation catalog.                                *)

TAG_SIZE == 8

MAX_URI_LEN == 1000

BITCOIN_TAG == <<5, 136, 150, 13, 115, 215, 25, 1>>

PENDING_TAG == <<131, 223, 227, 13, 46, 249, 12, 142>>

Bitcoin(height) == [kind |-> "Bitcoin", height |-> height]

Pending(uri) == [kind |-> "Pending", uri |-> uri]

Unknown(tag, data) == [kind |-> "Unknown", tag |-> tag, data |-> data]

\* String::from_utf8 and str::chars: a byte string is a String when it is
\* well-formed UTF-8, and its characters are the code points it encodes.
utf8_len(b) ==
    IF b < 128 THEN 1
    ELSE IF b \in 194 .. 223 THEN 2
    ELSE IF b \in 224 .. 239 THEN 3
    ELSE IF b \in 240 .. 244 THEN 4
    ELSE 0

utf8_second(b) ==
    CASE b = 224 -> 160 .. 191
      [] b = 237 -> 128 .. 159
      [] b = 240 -> 144 .. 191
      [] b = 244 -> 128 .. 143
      [] OTHER -> 128 .. 191

utf8_lead_bits(b, n) ==
    CASE n = 1 -> b
      [] n = 2 -> b % 32
      [] n = 3 -> b % 16
      [] n = 4 -> b % 8

RECURSIVE utf8_tail_bits(_, _, _, _)
utf8_tail_bits(bytes, i, n, acc) ==
    IF n = 0 THEN acc ELSE utf8_tail_bits(bytes, i + 1, n - 1, acc * 64 + (bytes[i] % 64))

\* the indices at which a character starts: the bytes that are no continuation bytes
utf8_starts(bytes) == {i \in 1 .. Len(bytes) : bytes[i] \notin 128 .. 191}

\* the character that starts at i is well formed and ends where the next starts
utf8_well(bytes, i) ==
    LET n == utf8_len(bytes[i])
    IN  /\ n > 0
        /\ i + n - 1 <= Len(bytes)
        /\ n >= 2 => bytes[i + 1] \in utf8_second(bytes[i])
        /\ \A k \in (i + 1) .. (i + n - 1) : bytes[k] \in 128 .. 191
        /\ i + n <= Len(bytes) => bytes[i + n] \notin 128 .. 191

utf8_char(bytes, i) ==
    utf8_tail_bits(bytes, i + 1, utf8_len(bytes[i]) - 1,
                   utf8_lead_bits(bytes[i], utf8_len(bytes[i])))

from_utf8(bytes) ==
    LET starts == utf8_starts(bytes)
        well == /\ bytes # <<>> => 1 \in starts
                /\ \A i \in starts : utf8_well(bytes, i)
    IN  [ok |-> well, string |-> bytes]

\* uri_char_ok that allows every printable ASCII character
uri_char_ok_Printable(ch) == ch \in 33 .. 126

\* 'a'..='z' | 'A'..='Z' | '0'..='9' | '.' | '-' | '_' | '/' | ':'
uri_char_ok(ch) ==
    \/ ch \in 97 .. 122
    \/ ch \in 65 .. 90
    \/ ch \in 48 .. 57
    \/ ch \in {46, 45, 95, 47, 58}

\* the loop over uri_string.chars(): the first character that is not allowed
first_bad_char(string) ==
    LET bad == {i \in utf8_starts(string) : ~uri_char_ok(utf8_char(string, i))}
    IN  IF bad = {} THEN <<>>
        ELSE <<utf8_char(string, CHOOSE i \in bad : \A j \in bad : i <= j)>>

pending_deserialize(s, pos) ==
    LET uri_bytes == read_bytes(s, pos, 0, MAX_URI_LEN)
    IN  IF ~uri_bytes.ok THEN uri_bytes
        ELSE LET uri_string == from_utf8(uri_bytes.val)
             IN  IF ~uri_string.ok THEN Fail(Err("Utf8", uri_bytes.val), uri_bytes.pos)
                 ELSE LET bad == first_bad_char(uri_string.string)
                      IN  IF bad # <<>> THEN Fail(Err("InvalidUriChar", bad[1]), uri_bytes.pos)
                          ELSE Ok(Pending(uri_bytes.val), uri_bytes.pos)

bitcoin_deserialize(s, pos) ==
    LET height == read_uint(s, pos)
    IN  IF height.ok THEN Ok(Bitcoin(height.val), height.pos) ELSE height

unknown_deserialize(s, pos, tag, len) ==
    LET data == read_fixed_bytes(s, pos, len)
    IN  IF data.ok THEN Ok(Unknown(tag, data.val), data.pos) ELSE data

attestation_deserialize(s, pos) ==
    LET tag == read_fixed_bytes(s, pos, U64FromNat(TAG_SIZE))
    IN  IF ~tag.ok THEN tag
        ELSE LET len == read_uint(s, tag.pos)
             IN  IF ~len.ok THEN len
                 ELSE IF tag.val = BITCOIN_TAG THEN bitcoin_deserialize(s, len.pos)
                 ELSE IF tag.val = PENDING_TAG THEN pending_deserialize(s, len.pos)
                 ELSE unknown_deserialize(s, len.pos, tag.val, len.val)

\* attestation_serialize that writes the payload of an unknown attestation bare
attestation_serialize_Bare(attest) ==
    CASE attest.kind = "Bitcoin" ->
            write_fixed_bytes(BITCOIN_TAG) \o write_bytes(write_uint(attest.height))
      [] attest.kind = "Pending" ->
            write_fixed_bytes(PENDING_TAG) \o write_bytes(write_bytes(attest.uri))
      [] attest.kind = "Unknown" ->
            write_fixed_bytes(attest.tag) \o write_fixed_bytes(attest.data)

\* attestation_serialize that frames the URI of a pending attestation once
attestation_serialize_Unframed(attest) ==
    CASE attest.kind = "Bitcoin" ->
            write_fixed_bytes(BITCOIN_TAG) \o write_bytes(write_uint(attest.height))
      [] attest.kind = "Pending" ->
            write_fixed_bytes(PENDING_TAG) \o write_bytes(attest.uri)
      [] attest.kind = "Unknown" ->
            write_fixed_bytes(attest.tag) \o write_bytes(attest.data)

attestation_serialize(attest) ==
    CASE attest.kind = "Bitcoin" ->
            write_fixed_bytes(BITCOIN_TAG) \o write_bytes(write_uint(attest.height))
      [] attest.kind = "Pending" ->
            write_fixed_bytes(PENDING_TAG) \o write_bytes(write_bytes(attest.uri))
      [] attest.kind = "Unknown" ->
            write_fixed_bytes(attest.tag) \o write_bytes(attest.data)

----------------------------------------------------------------------------
(* The codec on its own: a client writes an integer or a byte string with  *)
(* a Serializer and reads the written bytes back with a Deserializer, or   *)
(* reads an integer from bytes it got from elsewhere.                      *)

\* 2^k and 2^k - 1 as words
U64Pow2(k) == [i \in Word |-> IF i = k + 1 THEN 1 ELSE 0]

U64Ones(k) == [i \in Word |-> IF i <= k THEN 1 ELSE 0]

\* Integers 0 .. MaxSmallUint are written one by one.
MaxSmallUint == 130

\* Byte strings of up to MaxBytesLen bytes are written.
MaxBytesLen == 2

\* Encodings of up to MaxRawLen bytes are read.
MaxRawLen == 11

\* A byte string long enough for a two-byte length prefix.
LongBytesLen == 200

UintSamples ==
    {U64FromNat(k) : k \in 0 .. MaxSmallUint}
        \cup {U64Pow2(k) : k \in 0 .. (WordBits - 1)}
        \cup {U64Ones(k) : k \in 0 .. WordBits}
        \cup {U64Or(U64Pow2(k), U64FromNat(5)) : k \in 3 .. (WordBits - 1)}

SampleBytes == {0, 127, 128, 255}

RECURSIVE SeqsUpTo(_, _)
SeqsUpTo(S, n) ==
    IF n = 0 THEN {<<>>}
    ELSE LET shorter == SeqsUpTo(S, n - 1)
         IN  shorter \cup {Append(q, x) : q \in {t \in shorter : Len(t) = n - 1}, x \in S}

BytesSamples ==
    SeqsUpTo(SampleBytes, MaxBytesLen) \cup {[i \in 1 .. LongBytesLen |-> i % 256]}

\* the length bounds a caller of read_bytes may pass for a string of n bytes
LengthBounds(n) ==
    {<<0, n>>, <<n, n>>, <<0, 1000>>, <<1, 4096>>, <<n + 1, n + 2>>, <<0, n - 1>>}

\* encodings from elsewhere: k continuation bytes and one last byte
RawUints ==
    {[i \in 1 .. (k + 1) |-> IF i <= k THEN c ELSE l] :
        k \in 0 .. (MaxRawLen - 1), c \in {128, 129, 255}, l \in {0, 1, 127, 128}}

Tails == {<<>>, <<0>>, <<255, 1>>}

InitCodec ==
    /\ overflow_checks \in BOOLEAN
    /\ result = None
    /\ output = <<>>
    /\ consumed = 0
    /\ stack = <<>>
    /\ returned = <<>>
    /\ nodes = <<>>
    /\ file = None
    /\ work = <<>>
    /\ \/ /\ pc = "write_uint"
          /\ arg \in UintSamples
          /\ input = <<>>
       \/ /\ pc = "write_bytes"
          /\ \E data \in BytesSamples : \E b \in LengthBounds(Len(data)) :
                /\ b[1] >= 0
                /\ b[2] >= b[1]
                /\ arg = [data |-> data, min |-> b[1], max |-> b[2]]
          /\ input = <<>>
       \/ /\ pc = "read_uint"
          /\ arg = None
          /\ input \in RawUints

\* Serializer::new(vec![]).write_uint(n)
WriteUint ==
    /\ pc = "write_uint"
    /\ output' = write_uint(arg)
    /\ pc' = "read_written_uint"
    /\ UNCHANGED <<overflow_checks, arg, input, result, parser>>

\* Deserializer::new(written bytes, then a tail).read_uint()
ReadWrittenUint ==
    /\ pc = "read_written_uint"
    /\ \E tail \in Tails : input' = output \o tail
    /\ result' = read_uint(input', 0)
    /\ pc' = "uint_done"
    /\ UNCHANGED <<overflow_checks, arg, output, parser>>

\* Serializer::new(vec![]).write_bytes(data)
WriteBytes ==
    /\ pc = "write_bytes"
    /\ output' = write_bytes(arg.data)
    /\ pc' = "read_written_bytes"
    /\ UNCHANGED <<overflow_checks, arg, input, result, parser>>

\* Deserializer::new(written bytes, then a tail).read_bytes(min, max)
ReadWrittenBytes ==
    /\ pc = "read_written_bytes"
    /\ \E tail \in Tails : input' = output \o tail
    /\ result' = read_bytes(input', 0, arg.min, arg.max)
    /\ pc' = "bytes_done"
    /\ UNCHANGED <<overflow_checks, arg, output, parser>>

\* Deserializer::new(bytes).read_uint()
ReadUint ==
    /\ pc = "read_uint"
    /\ result' = read_uint(input, 0)
    /\ pc' = "raw_done"
    /\ UNCHANGED <<overflow_checks, arg, input, output, parser>>

NextCodec == WriteUint \/ ReadWrittenUint \/ WriteBytes \/ ReadWrittenBytes \/ ReadUint

SpecCodec == InitCodec /\ [][NextCodec]_vars

----------------------------------------------------------------------------
(* C2: reading back what write_uint(n) wrote returns n, for 0 <= n < 2^63, *)
(* and consumes exactly the bytes written; reading back what               *)
(* write_bytes(b) wrote with min <= len(b) <= max returns b.               *)
C2_RoundTrip ==
    /\ (pc = "uint_done" /\ arg[WordBits] = 0) =>
          /\ result.ok
          /\ result.val = arg
          /\ result.pos = Len(output)
    /\ (pc = "bytes_done" /\ arg.min <= Len(arg.data) /\ Len(arg.data) <= arg.max) =>
          /\ result.ok
          /\ result.val = arg.data
          /\ result.pos = Len(output)

\* the largest integer below 2^63 and a string with a two-byte length prefix
\* have been written and read back among bytes that follow them
C2_Witness ==
    \/ /\ pc = "uint_done"
       /\ arg = U64Ones(WordBits - 1)
       /\ Len(output) = 9
       /\ Len(input) > Len(output)
       /\ result.ok
    \/ /\ pc = "bytes_done"
       /\ Len(arg.data) = LongBytesLen
       /\ arg.min = 1
       /\ result.ok
       /\ Len(input) > Len(output)

(* C3: write_uint(n) writes one 0x00 byte for n = 0 and otherwise          *)
(* ceil(log128(n+1)) bytes, the 7-bit groups of n from the least           *)
(* significant, every byte but the last with its top bit set.              *)
C3_Minimal ==
    pc = "read_written_uint" =>
        IF U64IsZero(arg) THEN output = <<0>>
        ELSE /\ Len(output) = (U64BitLen(arg) + 6) \div 7
             /\ \A i \in 1 .. Len(output) :
                    output[i] = BitsToNat(arg, 7 * (i - 1) + 1,
                                          IF 7 * i <= WordBits THEN 7 * i ELSE WordBits)
                                + (IF i < Len(output) THEN 128 ELSE 0)

\* the examples of the claim
C3_Examples ==
    pc = "read_written_uint" =>
        /\ arg = U64FromNat(127) => output = <<127>>
        /\ arg = U64FromNat(128) => output = <<128, 1>>
        /\ arg = U64FromNat(16383) => output = <<255, 127>>
        /\ arg = U64FromNat(16384) => output = <<128, 128, 1>>

\* C3: write_uint writes the minimal little-endian base-128 form, the
\* examples of the claim among them
C3_MinimalEncoding == C3_Minimal /\ C3_Examples

C3_Witness ==
    /\ pc = "read_written_uint"
    /\ arg = U64FromNat(16384)
    /\ output = <<128, 128, 1>>

----------------------------------------------------------------------------
(* timestamp.rs and the envelope of ser.rs.  deserialize_step_recurse      *)
(* recurses once per step of the tree and from_reader runs it to the end,  *)
(* so the parser is modelled call by call: `stack` holds one frame per     *)
(* active call, with the call's arguments, its locals and the place it has *)
(* reached.  A Step is [data, output, next]; the Steps live in `nodes` and *)
(* `next` lists places in it.  An Option<u8> is <<>> for None and <<tag>>  *)
(* for Some(tag).                                                          *)

RECURSION_LIMIT == 256

MAGIC ==
    <<0, 79, 112, 101, 110, 84, 105, 109, 101, 115, 116, 97, 109, 112, 115, 0,
      0, 80, 114, 111, 111, 102, 0, 191, 137, 226, 232, 132, 232, 146, 148>>

VERSION == 1

ForkData == [kind |-> "Fork"]

OpData(op) == [kind |-> "Op", op |-> op]

AttestationData(attest) == [kind |-> "Attestation", attest |-> attest]

Step(data, out, next) == [data |-> data, output |-> out, next |-> next]

Timestamp(start_digest, first_step) ==
    [start_digest |-> start_digest, first_step |-> first_step]

NoOp == UnaryOp("none")

\* a call deserialize_step_recurse(deser, input_digest, tag, recursion_limit)
Call(input_digest, tag, recursion_limit) ==
    [input_digest |-> input_digest, tag |-> tag, recursion_limit |-> recursion_limit,
     at |-> "call", forks |-> <<>>, op |-> NoOp, output_digest |-> <<>>]

Top == stack[Len(stack)]

Callers == SubSeq(stack, 1, Len(stack) - 1)

\* child_limit that hands the whole budget on
child_limit_Same(recursion_limit) == recursion_limit

\* `recursion_limit - 1`, the budget of every recursive call
child_limit(recursion_limit) == recursion_limit - 1

\* op_child_digest that hands on the digest the op was given
op_child_digest_Input(input_digest, output_digest) == input_digest

\* `output_digest.clone()`, the input digest of the step after an op
op_child_digest(input_digest, output_digest) == output_digest

\* `Step { data: StepData::Op(op), output: output_digest, next }`
op_step(op, input_digest, output_digest, next) == Step(OpData(op), output_digest, next)

\* `Step { data: StepData::Fork, output: input_digest, next: forks }`
fork_step(input_digest, forks) == Step(ForkData, input_digest, forks)

\* `Step { data: StepData::Attestation(attest), output: input_digest, next: vec![] }`
attestation_step(attest, input_digest) == Step(AttestationData(attest), input_digest, <<>>)

from_tag(tag) ==
    CASE tag = 2 -> Ok("Sha1", 0)
      [] tag = 3 -> Ok("Ripemd160", 0)
      [] tag = 8 -> Ok("Sha256", 0)
      [] OTHER -> Fail(Err("BadDigestTag", tag), 0)

\* to_tag with the tags of Sha256 and Ripemd160 exchanged
to_tag_Exchanged(digest_type) ==
    CASE digest_type = "Sha1" -> 2
      [] digest_type = "Sha256" -> 3
      [] digest_type = "Ripemd160" -> 8

to_tag(digest_type) ==
    CASE digest_type = "Sha1" -> 2
      [] digest_type = "Sha256" -> 8
      [] digest_type = "Ripemd160" -> 3

\* digest_len that is 20 for every digest type
digest_len_Twenty(digest_type) == 20

digest_len(digest_type) ==
    CASE digest_type = "Sha1" -> 20
      [] digest_type = "Sha256" -> 32
      [] digest_type = "Ripemd160" -> 20

read_magic(s, pos) ==
    LET recv_magic == read_fixed_bytes(s, pos, U64FromNat(Len(MAGIC)))
    IN  IF ~recv_magic.ok THEN recv_magic
        ELSE IF recv_magic.val = MAGIC THEN Ok(None, recv_magic.pos)
        ELSE Fail(Err("BadMagic", recv_magic.val), recv_magic.pos)

\* read_version that takes every version
read_version_Any(s, pos) ==
    LET recv_version == read_uint(s, pos)
    IN  IF ~recv_version.ok THEN recv_version ELSE Ok(None, recv_version.pos)

read_version(s, pos) ==
    LET recv_version == read_uint(s, pos)
    IN  IF ~recv_version.ok THEN recv_version
        ELSE IF recv_version.val = U64FromNat(VERSION) THEN Ok(None, recv_version.pos)
        ELSE Fail(Err("BadVersion", recv_version.val), recv_version.pos)

\* the locals of from_reader before they are set
NoFile == [digest_type |-> "", digest |-> <<>>, timestamp |-> Timestamp(<<>>, 0)]

\* `?`: the error r is returned to the client and everything built is dropped
Return(r) ==
    /\ pc' = "failed"
    /\ result' = r
    /\ consumed' = r.pos
    /\ stack' = <<>>
    /\ returned' = <<>>
    /\ nodes' = <<>>
    /\ file' = NoFile

\* deser.read_magic()?
ReadMagic ==
    /\ pc = "read_magic"
    /\ LET r == read_magic(input, consumed)
       IN  IF r.ok
           THEN /\ consumed' = r.pos
                /\ pc' = "read_version"
                /\ UNCHANGED <<stack, returned, nodes, file, result>>
           ELSE Return(r)
    /\ UNCHANGED <<overflow_checks, arg, input, work, output>>

\* deser.read_version()?
ReadVersion ==
    /\ pc = "read_version"
    /\ LET r == read_version(input, consumed)
       IN  IF r.ok
           THEN /\ consumed' = r.pos
                /\ pc' = "digest_type"
                /\ UNCHANGED <<stack, returned, nodes, file, result>>
           ELSE Return(r)
    /\ UNCHANGED <<overflow_checks, arg, input, work, output>>

\* let digest_type = DigestType::from_tag(deser.read_byte()?)?
ReadDigestType ==
    /\ pc = "digest_type"
    /\ LET tag == read_byte(input, consumed)
           digest_type == from_tag(tag.val)
       IN  IF ~tag.ok THEN Return(tag)
           ELSE IF ~digest_type.ok THEN Return(Fail(digest_type.err, tag.pos))
           ELSE /\ consumed' = tag.pos
                /\ file' = [file EXCEPT !.digest_type = digest_type.val]
                /\ pc' = "digest"
                /\ UNCHANGED <<stack, returned, nodes, result>>
    /\ UNCHANGED <<overflow_checks, arg, input, work, output>>

\* let digest = deser.read_fixed_bytes(digest_type.digest_len())?
ReadDigest ==
    /\ pc = "digest"
    /\ LET r == read_fixed_bytes(input, consumed, U64FromNat(digest_len(file.digest_type)))
       IN  IF r.ok
           THEN /\ consumed' = r.pos
                /\ file' = [file EXCEPT !.digest = r.val]
                /\ pc' = "timestamp"
                /\ UNCHANGED <<stack, returned, nodes, result>>
           ELSE Return(r)
    /\ UNCHANGED <<overflow_checks, arg, input, work, output>>

\* TimestampDeserialize that starts with a budget of RECURSION_LIMIT - 1
TimestampDeserialize_OneLess ==
    /\ pc = "timestamp"
    /\ stack' = <<Call(file.digest, <<>>, RECURSION_LIMIT - 1)>>
    /\ pc' = "step"
    /\ UNCHANGED <<overflow_checks, arg, input, consumed, returned, nodes, file, result,
                   work, output>>

\* Timestamp::deserialize(deser, digest) calls
\* deserialize_step_recurse(deser, digest.clone(), None, RECURSION_LIMIT)
TimestampDeserialize ==
    /\ pc = "timestamp"
    /\ stack' = <<Call(file.digest, <<>>, RECURSION_LIMIT)>>
    /\ pc' = "step"
    /\ UNCHANGED <<overflow_checks, arg, input, consumed, returned, nodes, file, result,
                   work, output>>

Entered ==
    /\ pc = "step"
    /\ returned = <<>>
    /\ stack # <<>>
    /\ Top.at = "call"

\* `if recursion_limit == 0 { return Err(Error::StackOverflow) }`
StepStackOverflow ==
    /\ Entered
    /\ Top.recursion_limit = 0
    /\ Return(Fail(Err("StackOverflow", None), consumed))
    /\ UNCHANGED <<overflow_checks, arg, input, work, output>>

\* `let tag = match tag { Some(tag) => tag, None => deser.read_byte()? }`
NextTag == IF Top.tag # <<>> THEN Ok(Top.tag[1], consumed) ELSE read_byte(input, consumed)

\* the read of the tag fails
StepEof ==
    /\ Entered
    /\ Top.recursion_limit # 0
    /\ ~NextTag.ok
    /\ Return(NextTag)
    /\ UNCHANGED <<overflow_checks, arg, input, work, output>>

\* `0x00 =>`: an attestation ends the path
StepAttestation ==
    /\ Entered
    /\ Top.recursion_limit # 0
    /\ NextTag.ok
    /\ NextTag.val = 0
    /\ LET attest == attestation_deserialize(input, NextTag.pos)
       IN  IF attest.ok
           THEN /\ nodes' = Append(nodes, attestation_step(attest.val, Top.input_digest))
                /\ returned' = <<Len(nodes) + 1>>
                /\ stack' = Callers
                /\ consumed' = attest.pos
                /\ UNCHANGED <<pc, file, result>>
           ELSE Return(attest)
    /\ UNCHANGED <<overflow_checks, arg, input, work, output>>

\* `0xff =>`: the fork enters its loop and parses its first child
StepFork ==
    /\ Entered
    /\ Top.recursion_limit # 0
    /\ NextTag.ok
    /\ NextTag.val = 255
    /\ stack' = Callers
                  \o <<[Top EXCEPT !.at = "fork_loop"],
                       Call(Top.input_digest, <<>>, child_limit(Top.recursion_limit))>>
    /\ consumed' = NextTag.pos
    /\ UNCHANGED <<overflow_checks, pc, arg, input, returned, nodes, file, result, work,
                   output>>

\* `tag =>`: an op is read and executed, and the step after it is parsed
StepOp ==
    /\ Entered
    /\ Top.recursion_limit # 0
    /\ NextTag.ok
    /\ NextTag.val \notin {0, 255}
    /\ LET op == deserialize_with_tag(input, NextTag.pos, NextTag.val)
           output_digest == execute(op.val, Top.input_digest)
       IN  IF op.ok
           THEN /\ stack' = Callers
                             \o <<[Top EXCEPT !.at = "op", !.op = op.val,
                                              !.output_digest = output_digest],
                                  Call(op_child_digest(Top.input_digest, output_digest),
                                       <<>>, child_limit(Top.recursion_limit))>>
                /\ consumed' = op.pos
                /\ UNCHANGED <<pc, returned, nodes, file, result>>
           ELSE Return(op)
    /\ UNCHANGED <<overflow_checks, arg, input, work, output>>

\* ForkPush that takes the end of the input after a child for the end of the fork
ForkPush_EofEndsFork ==
    /\ pc = "step"
    /\ returned # <<>>
    /\ stack # <<>>
    /\ Top.at = "fork_loop"
    /\ LET next_tag == read_byte(input, consumed)
           forks == Append(Top.forks, returned[1])
       IN  IF ~next_tag.ok
           THEN /\ nodes' = Append(nodes, fork_step(Top.input_digest, forks))
                /\ returned' = <<Len(nodes) + 1>>
                /\ stack' = Callers
                /\ UNCHANGED <<pc, consumed, file, result>>
           ELSE /\ stack' =
                      Callers
                        \o (IF next_tag.val = 255
                            THEN <<[Top EXCEPT !.forks = forks],
                                   Call(Top.input_digest, <<>>,
                                        child_limit(Top.recursion_limit))>>
                            ELSE <<[Top EXCEPT !.forks = forks, !.at = "fork_last"],
                                   Call(Top.input_digest, <<next_tag.val>>,
                                        child_limit(Top.recursion_limit))>>)
                /\ consumed' = next_tag.pos
                /\ returned' = <<>>
                /\ UNCHANGED <<pc, nodes, file, result>>
    /\ UNCHANGED <<overflow_checks, arg, input, work, output>>

\* ForkPush with a 0xff after a fork child given to the last child as its tag
ForkPush_LastFork ==
    /\ pc = "step"
    /\ returned # <<>>
    /\ stack # <<>>
    /\ Top.at = "fork_loop"
    /\ LET next_tag == read_byte(input, consumed)
           forks == Append(Top.forks, returned[1])
       IN  IF ~next_tag.ok THEN Return(next_tag)
           ELSE /\ stack' =
                      Callers
                        \o <<[Top EXCEPT !.forks = forks, !.at = "fork_last"],
                             Call(Top.input_digest, <<next_tag.val>>,
                                  child_limit(Top.recursion_limit))>>
                /\ consumed' = next_tag.pos
                /\ returned' = <<>>
                /\ UNCHANGED <<pc, nodes, file, result>>
    /\ UNCHANGED <<overflow_checks, arg, input, work, output>>

\* In the loop of a fork a child has returned: `forks.push(child)`,
\* `next_tag = deser.read_byte()?`; the loop goes on for 0xff, and otherwise
\* the last child is parsed with next_tag as its tag.
ForkPush ==
    /\ pc = "step"
    /\ returned # <<>>
    /\ stack # <<>>
    /\ Top.at = "fork_loop"
    /\ LET next_tag == read_byte(input, consumed)
           forks == Append(Top.forks, returned[1])
       IN  IF ~next_tag.ok THEN Return(next_tag)
           ELSE /\ stack' =
                      Callers
                        \o (IF next_tag.val = 255
                            THEN <<[Top EXCEPT !.forks = forks],
                                   Call(Top.input_digest, <<>>,
                                        child_limit(Top.recursion_limit))>>
                            ELSE <<[Top EXCEPT !.forks = forks, !.at = "fork_last"],
                                   Call(Top.input_digest, <<next_tag.val>>,
                                        child_limit(Top.recursion_limit))>>)
                /\ consumed' = next_tag.pos
                /\ returned' = <<>>
                /\ UNCHANGED <<pc, nodes, file, result>>
    /\ UNCHANGED <<overflow_checks, arg, input, work, output>>

\* the last child of a fork has returned: `forks.push(child)`, `Ok(Step { Fork .. })`
ForkReturn ==
    /\ pc = "step"
    /\ returned # <<>>
    /\ stack # <<>>
    /\ Top.at = "fork_last"
    /\ nodes' = Append(nodes, fork_step(Top.input_digest, Append(Top.forks, returned[1])))
    /\ returned' = <<Len(nodes) + 1>>
    /\ stack' = Callers
    /\ UNCHANGED <<overflow_checks, pc, arg, input, consumed, file, result, work, output>>

\* the step after an op has returned: `Ok(Step { Op(op) .. })`
OpReturn ==
    /\ pc = "step"
    /\ returned # <<>>
    /\ stack # <<>>
    /\ Top.at = "op"
    /\ nodes' = Append(nodes, op_step(Top.op, Top.input_digest, Top.output_digest,
                                      <<returned[1]>>))
    /\ returned' = <<Len(nodes) + 1>>
    /\ stack' = Callers
    /\ UNCHANGED <<overflow_checks, pc, arg, input, consumed, file, result, work, output>>

\* the first step has returned: `Ok(Timestamp { start_digest: digest, first_step })`
TimestampReturn ==
    /\ pc = "step"
    /\ returned # <<>>
    /\ stack = <<>>
    /\ file' = [file EXCEPT !.timestamp = Timestamp(file.digest, returned[1])]
    /\ returned' = <<>>
    /\ pc' = "check_eof"
    /\ UNCHANGED <<overflow_checks, arg, input, consumed, stack, nodes, result, work, output>>

\* deser.check_eof()?, then Ok(DetachedTimestampFile { .. })
CheckEof ==
    /\ pc = "check_eof"
    /\ LET r == check_eof(input, consumed)
       IN  IF r.ok
           THEN /\ result' = Ok(file, r.pos)
                /\ pc' = "to_writer"
                /\ UNCHANGED <<consumed, stack, returned, nodes, file>>
           ELSE Return(r)
    /\ UNCHANGED <<overflow_checks, arg, input, work, output>>

\* a call serialize_step_recurse(ser, step): the step and the index of its loop
Serialize(step) == [step |-> step, i |-> 1]

Serializing == SubSeq(work, 1, Len(work) - 1)

\* file.to_writer(vec![]): magic, version, digest type, digest, then
\* self.timestamp.serialize(ser)
ToWriter ==
    /\ pc = "to_writer"
    /\ output' = write_fixed_bytes(MAGIC)
                    \o write_uint(U64FromNat(VERSION))
                    \o write_byte(to_tag(file.digest_type))
                    \o write_fixed_bytes(file.digest)
    /\ work' = <<Serialize(file.timestamp.first_step)>>
    /\ pc' = "serialize"
    /\ UNCHANGED <<overflow_checks, arg, input, consumed, stack, returned, nodes, file,
                   result>>

InSerialize(kind) ==
    /\ pc = "serialize"
    /\ work # <<>>
    /\ nodes[work[Len(work)].step].data.kind = kind

\* `StepData::Fork`: 0xff and a call for each child but the last, then the call
\* for the last child; `step.next.len() - 1` panics for a fork without children
SerializeFork ==
    /\ InSerialize("Fork")
    /\ LET call == work[Len(work)]
           next == nodes[call.step].next
       IN  IF next = <<>>
           THEN pc' = "panicked" /\ UNCHANGED <<work, output>>
           ELSE IF call.i < Len(next)
           THEN /\ output' = output \o write_byte(255)
                /\ work' = Serializing \o <<[call EXCEPT !.i = call.i + 1],
                                            Serialize(next[call.i])>>
                /\ UNCHANGED pc
           ELSE /\ work' = Serializing \o <<Serialize(next[Len(next)])>>
                /\ UNCHANGED <<pc, output>>
    /\ UNCHANGED <<overflow_checks, arg, input, consumed, stack, returned, nodes, file,
                   result>>

\* `StepData::Op`: the op, then the call for `step.next[0]`
SerializeOp ==
    /\ InSerialize("Op")
    /\ LET call == work[Len(work)]
           next == nodes[call.step].next
       IN  IF next = <<>>
           THEN pc' = "panicked" /\ UNCHANGED <<work, output>>
           ELSE /\ output' = output \o op_serialize(nodes[call.step].data.op)
                /\ work' = Serializing \o <<Serialize(next[1])>>
                /\ UNCHANGED pc
    /\ UNCHANGED <<overflow_checks, arg, input, consumed, stack, returned, nodes, file,
                   result>>

\* `StepData::Attestation`: 0x00 and the attestation; the call returns
SerializeAttestation ==
    /\ InSerialize("Attestation")
    /\ output' = output \o write_byte(0)
                    \o attestation_serialize(nodes[work[Len(work)].step].data.attest)
    /\ work' = Serializing
    /\ UNCHANGED <<overflow_checks, pc, arg, input, consumed, stack, returned, nodes, file,
                   result>>

\* to_writer returns Ok(())
WriterReturn ==
    /\ pc = "serialize"
    /\ work = <<>>
    /\ pc' = "written"
    /\ UNCHANGED <<overflow_checks, arg, input, consumed, stack, returned, nodes, file,
                   result, work, output>>

----------------------------------------------------------------------------
(* The library as its clients use it: from_reader on the bytes of a file,  *)
(* to_writer on the file it returned, and from_reader once more on the     *)
(* same bytes with one more byte after them.                               *)

\* Tree streams of up to MaxTokens tokens are parsed.
MaxTokens == 3

\* the pieces tree streams are made of
ForkToken == <<255>>

UnknownTag == <<1, 2, 3, 4, 5, 6, 7, 8>>

BitcoinLeaf(len, height) == <<0>> \o BITCOIN_TAG \o len \o height

PendingLeaf(len, uri) == <<0>> \o PENDING_TAG \o len \o write_bytes(uri)

UnknownLeaf(data) == <<0>> \o UnknownTag \o write_bytes(data)

Tokens ==
    { ForkToken,
      <<8>>,                               \* Sha256
      <<243>>,                             \* Hexlify
      <<240, 1, 170>>,                     \* Append(aa)
      <<241, 129, 0, 187>>,                \* Prepend(bb), the length written as 81 00
      BitcoinLeaf(<<1>>, <<0>>),           \* Bitcoin height 0
      BitcoinLeaf(<<5>>, <<172, 2>>),      \* Bitcoin height 300, length field 5
      PendingLeaf(<<2>>, <<97>>),          \* Pending "a"
      UnknownLeaf(<<171>>),
      <<85>> }                             \* no op tag

RECURSIVE Flatten(_)
Flatten(seqs) == IF seqs = <<>> THEN <<>> ELSE Head(seqs) \o Flatten(Tail(seqs))

TreeStreams == {Flatten(q) : q \in SeqsUpTo(Tokens, MaxTokens)}

\* larger shapes: scenario D of the specification, a three-way fork, forks
\* under ops under a fork, a chain of ops, chains of ops under a fork
ShapeStreams ==
    LET btc == BitcoinLeaf(<<1>>, <<0>>)
        pend == PendingLeaf(<<2>>, <<97>>)
        unk == UnknownLeaf(<<171, 205>>)
    IN  { ForkToken \o <<8>> \o btc \o <<2>> \o pend,
          ForkToken \o btc \o ForkToken \o pend \o unk,
          ForkToken \o <<242>> \o ForkToken \o btc \o pend \o <<3>> \o ForkToken \o unk \o btc,
          <<240, 2, 1, 2, 241, 1, 9, 8, 242, 243, 2, 3>> \o btc,
          ForkToken \o <<8, 243>> \o btc \o <<240, 1, 170, 242>> \o pend }

\* streams of nothing but fork bytes, around the recursion limit
RECURSIVE Repeat(_, _)
Repeat(bytes, n) ==
    IF n = 0 THEN <<>>
    ELSE LET half == Repeat(bytes, n \div 2)
         IN  half \o half \o (IF n % 2 = 1 THEN bytes ELSE <<>>)

ForkRuns ==
    {Repeat(ForkToken, n) : n \in (RECURSION_LIMIT - 1) .. (RECURSION_LIMIT + 1)}

SampleDigest(digest_type) == [i \in 1 .. digest_len(digest_type) |-> i]

Header(digest_type) ==
    MAGIC \o <<VERSION>> \o <<to_tag(digest_type)>> \o SampleDigest(digest_type)

\* envelopes that differ from Header("Sha1") in one field or in several
EnvelopeInputs ==
    LET btc == BitcoinLeaf(<<1>>, <<0>>)
        digest == SampleDigest("Sha1")
    IN  { [MAGIC EXCEPT ![5] = 0] \o <<1, 2>> \o digest \o btc,
          SubSeq(MAGIC, 1, 30),
          MAGIC,
          MAGIC \o <<2, 2>> \o digest \o btc,
          MAGIC \o <<129, 0, 2>> \o digest \o btc,
          MAGIC \o <<0, 2>> \o digest \o btc,
          MAGIC \o <<129>>,
          MAGIC \o <<1>>,
          MAGIC \o <<1, 9>> \o digest \o btc,
          MAGIC \o <<1, 0>> \o digest \o btc,
          MAGIC \o <<1, 2>> \o SubSeq(digest, 1, 19),
          MAGIC \o <<1, 8>> \o digest \o btc,
          Header("Sha256") \o btc,
          Header("Ripemd160") \o btc,
          \* more than one field is wrong
          [MAGIC EXCEPT ![31] = 0] \o <<2, 9>> \o digest \o <<85>>,
          MAGIC \o <<2, 9>> \o digest \o <<85>>,
          MAGIC \o <<1, 9>> \o digest \o <<85>>,
          MAGIC \o <<129, 0, 3>> \o digest \o <<85, 0>> }

\* n Reverse ops one after the other
OpChain(n) == Repeat(<<242>>, n)

\* a fork of n children, every child a leaf
WideFork(n) == Repeat(ForkToken \o BitcoinLeaf(<<1>>, <<0>>), n - 1) \o BitcoinLeaf(<<1>>, <<0>>)

\* streams at the recursion limit: paths of RECURSION_LIMIT steps and of one
\* more, and a fork with more children than RECURSION_LIMIT
BudgetStreams ==
    { OpChain(RECURSION_LIMIT - 1) \o BitcoinLeaf(<<1>>, <<0>>),
      OpChain(RECURSION_LIMIT) \o BitcoinLeaf(<<1>>, <<0>>),
      WideFork(RECURSION_LIMIT + 2) }

\* streams whose digests grow: Hexlify eight times over, before a leaf
GrowthStreams == {Repeat(<<243>>, 8) \o BitcoinLeaf(<<1>>, <<0>>)}

Inputs ==
    {Header("Sha1") \o t :
        t \in TreeStreams \cup ShapeStreams \cup ForkRuns \cup BudgetStreams \cup GrowthStreams}
        \cup EnvelopeInputs

\* what a client puts after an accepted file: one byte, or a whole leaf
Trailers == {<<0>>, <<8>>, <<85>>, <<255>>, BitcoinLeaf(<<1>>, <<0>>)}

\* what the client keeps of an earlier from_reader: nothing yet
NoParsed == [file |-> NoFile, nodes |-> <<>>]

First == [how |-> "first", before |-> <<>>, parsed |-> NoParsed]

\* trees a client builds from the public fields of Step, as the parser lays
\* them out: the children of a step before the step, the first step last
BuiltLeaf(height) ==
    attestation_step(Bitcoin(U64FromNat(height)), SampleDigest("Sha1"))

BuiltFork(next) == fork_step(SampleDigest("Sha1"), next)

BuiltOp(next) ==
    op_step(UnaryOp("Reverse"), SampleDigest("Sha1"),
            execute(UnaryOp("Reverse"), SampleDigest("Sha1")), next)

BuiltOpLeaf(height) ==
    attestation_step(Bitcoin(U64FromNat(height)),
                     execute(UnaryOp("Reverse"), SampleDigest("Sha1")))

BuiltOpFork(next) == fork_step(execute(UnaryOp("Reverse"), SampleDigest("Sha1")), next)

BuiltTrees ==
    { \* Fork[a, Fork[b, c]]
      <<BuiltLeaf(1), BuiltLeaf(2), BuiltLeaf(3), BuiltFork(<<2, 3>>), BuiltFork(<<1, 4>>)>>,
      \* Fork[a, Fork[b, Fork[c, d]]]
      <<BuiltLeaf(1), BuiltLeaf(2), BuiltLeaf(3), BuiltLeaf(4), BuiltFork(<<3, 4>>),
        BuiltFork(<<2, 5>>), BuiltFork(<<1, 6>>)>>,
      \* Fork[Fork[a, b], c]
      <<BuiltLeaf(1), BuiltLeaf(2), BuiltFork(<<1, 2>>), BuiltLeaf(3), BuiltFork(<<3, 4>>)>>,
      \* Fork[Fork[a, Fork[b, c]], d]
      <<BuiltLeaf(1), BuiltLeaf(2), BuiltLeaf(3), BuiltFork(<<2, 3>>), BuiltFork(<<1, 4>>),
        BuiltLeaf(4), BuiltFork(<<5, 6>>)>>,
      \* Fork[a, Reverse -> Fork[b, c]]
      <<BuiltLeaf(1), BuiltOpLeaf(2), BuiltOpLeaf(3), BuiltOpFork(<<2, 3>>), BuiltOp(<<4>>),
        BuiltFork(<<1, 5>>)>>,
      \* Reverse -> Fork[a, Fork[b, c]]
      <<BuiltOpLeaf(1), BuiltOpLeaf(2), BuiltOpLeaf(3), BuiltOpFork(<<2, 3>>),
        BuiltOpFork(<<1, 4>>), BuiltOp(<<5>>)>> }

Built == [how |-> "built", before |-> <<>>, parsed |-> NoParsed]

BuiltFile(steps) ==
    [digest_type |-> "Sha1", digest |-> SampleDigest("Sha1"),
     timestamp |-> Timestamp(SampleDigest("Sha1"), Len(steps))]

\* the client either holds bytes and calls from_reader, or holds a file it has
\* built and calls to_writer
Init ==
    /\ overflow_checks \in BOOLEAN
    /\ \/ /\ pc = "from_reader"
          /\ arg = First
          /\ input \in Inputs
          /\ nodes = <<>>
          /\ file = NoFile
       \/ /\ pc = "to_writer"
          /\ arg = Built
          /\ input = <<>>
          /\ nodes \in BuiltTrees
          /\ file = BuiltFile(nodes)
    /\ consumed = 0
    /\ stack = <<>>
    /\ returned = <<>>
    /\ result = None
    /\ work = <<>>
    /\ output = <<>>

\* DetachedTimestampFile::from_reader(input): `Deserializer::new(reader)`
FromReader ==
    /\ pc = "from_reader"
    /\ pc' = "read_magic"
    /\ consumed' = 0
    /\ UNCHANGED <<overflow_checks, arg, input, stack, returned, nodes, file, result, work,
                   output>>

\* the client calls from_reader on the bytes of the accepted file and more bytes
ReadWithTrailingByte ==
    /\ pc = "written"
    /\ arg.how = "first"
    /\ \E tail \in Trailers : input' = input \o tail
    /\ arg' = [how |-> "trailing", before |-> input, parsed |-> NoParsed]
    /\ pc' = "from_reader"
    /\ consumed' = 0
    /\ nodes' = <<>>
    /\ file' = NoFile
    /\ result' = None
    /\ output' = <<>>
    /\ UNCHANGED <<overflow_checks, stack, returned, work>>

\* the client keeps the file it has and calls from_reader on the bytes
\* to_writer wrote for it
ReadWritten ==
    /\ pc = "written"
    /\ arg.how = "first"
    /\ input' = output
    /\ arg' = [how |-> "again", before |-> input, parsed |-> [file |-> file, nodes |-> nodes]]
    /\ pc' = "from_reader"
    /\ consumed' = 0
    /\ nodes' = <<>>
    /\ file' = NoFile
    /\ result' = None
    /\ output' = <<>>
    /\ UNCHANGED <<overflow_checks, stack, returned, work>>

\* the client keeps the file it built and calls from_reader on the bytes
\* to_writer wrote for it
ReadBuilt ==
    /\ pc = "written"
    /\ arg.how = "built"
    /\ input' = output
    /\ arg' = [how |-> "reparsed", before |-> <<>>,
               parsed |-> [file |-> file, nodes |-> nodes]]
    /\ pc' = "from_reader"
    /\ consumed' = 0
    /\ nodes' = <<>>
    /\ file' = NoFile
    /\ result' = None
    /\ output' = <<>>
    /\ UNCHANGED <<overflow_checks, stack, returned, work>>

Next ==
    \/ FromReader
    \/ ReadMagic
    \/ ReadVersion
    \/ ReadDigestType
    \/ ReadDigest
    \/ TimestampDeserialize
    \/ StepStackOverflow
    \/ StepEof
    \/ StepAttestation
    \/ StepFork
    \/ StepOp
    \/ ForkPush
    \/ ForkReturn
    \/ OpReturn
    \/ TimestampReturn
    \/ CheckEof
    \/ ToWriter
    \/ SerializeFork
    \/ SerializeOp
    \/ SerializeAttestation
    \/ WriterReturn
    \/ ReadWithTrailingByte
    \/ ReadWritten
    \/ ReadBuilt

Spec == Init /\ [][Next]_vars

----------------------------------------------------------------------------
\* from_reader has returned a file
Accepted ==
    /\ pc \in {"to_writer", "serialize", "written", "panicked"}
    /\ arg.how # "built"

\* from_reader has returned
Returned == pc = "failed" \/ Accepted

IsPrefix(p, q) == Len(p) <= Len(q) /\ SubSeq(q, 1, Len(p)) = p

\* the bytes of the input after the envelope Header("Sha1")
TreeStream == SubSeq(input, Len(Header("Sha1")) + 1, Len(input))

(* C1: to_writer on the file from_reader returned writes exactly the bytes *)
(* from_reader was given, whatever form their integers and length fields   *)
(* were written in.                                                        *)
C1_ByteExactRoundTrip ==
    (pc = "written" /\ arg.how = "first") => output = input

(* C4: with the file's digest as the output of the parent of the first     *)
(* step, the output of an Op step is its op executed on the output of its  *)
(* parent, and the output of a Fork or Attestation step is the output of   *)
(* its parent; the children of a Fork are all given the digest of the Fork.*)
OutputFollows(step, parent_output) ==
    IF step.data.kind = "Op"
    THEN step.output = execute(step.data.op, parent_output)
    ELSE step.output = parent_output

C4_StepDigests ==
    /\ \A p \in 1 .. Len(nodes) : \A k \in 1 .. Len(nodes[p].next) :
          OutputFollows(nodes[nodes[p].next[k]], nodes[p].output)
    /\ (pc = "check_eof" \/ Accepted) =>
          /\ file.timestamp.start_digest = file.digest
          /\ OutputFollows(nodes[file.timestamp.first_step], file.digest)

\* a file is returned in which a fork has an op as a child and an op after that op
C4_Witness ==
    /\ pc = "to_writer"
    /\ \E p \in 1 .. Len(nodes) :
          /\ nodes[p].data.kind = "Fork"
          /\ \E k \in 1 .. Len(nodes[p].next) :
                LET child == nodes[nodes[p].next[k]]
                IN  /\ child.data.kind = "Op"
                    /\ child.output # nodes[p].output
                    /\ nodes[child.next[1]].data.kind = "Op"
                    /\ nodes[child.next[1]].output # child.output

(* C5: a tree stream that starts with 257 fork bytes fails with            *)
(* StackOverflow, and at no time have more than RECURSION_LIMIT nested     *)
(* calls of the parser read input.                                         *)
StartsWithForks(n) ==
    /\ IsPrefix(Header("Sha1"), input)
    /\ IsPrefix(Repeat(ForkToken, n), TreeStream)

C5_RecursionBound ==
    /\ Cardinality({i \in 1 .. Len(stack) : stack[i].at # "call"}) <= RECURSION_LIMIT
    /\ Len(stack) <= RECURSION_LIMIT + 1
    /\ StartsWithForks(RECURSION_LIMIT + 1) =>
          /\ ~Accepted
          /\ pc = "failed" => result.err.kind = "StackOverflow"
          /\ consumed <= Len(Header("Sha1")) + RECURSION_LIMIT

C5_Witness ==
    /\ StartsWithForks(RECURSION_LIMIT + 1)
    /\ pc = "failed"
    /\ result.err.kind = "StackOverflow"

(* C6: when from_reader accepts p, from_reader on p followed by a byte     *)
(* consumes the same bytes up to check_eof and fails with TrailingBytes.   *)
C6_TrailingBytes ==
    arg.how = "trailing" =>
        /\ ~Accepted
        /\ pc = "check_eof" => consumed = Len(arg.before)
        /\ pc = "failed" =>
              /\ result.err.kind = "TrailingBytes"
              /\ result.pos = Len(arg.before) + 1

C6_Witness ==
    /\ arg.how = "trailing"
    /\ Len(input) = Len(arg.before) + 1
    /\ pc = "failed"
    /\ result.err.kind = "TrailingBytes"

(* C9: in a tree the parser returns a Fork has at least two children, an   *)
(* Op exactly one and an Attestation none; 0xff and one subtree before the *)
(* end of the input is an error.                                           *)
OneChildForks ==
    LET leaves == {t \in Tokens : t[1] = 0}
        ops == {t \in Tokens : t[1] \in {8, 240, 241, 243}}
    IN  {Header("Sha1") \o ForkToken \o t : t \in leaves}
          \cup {Header("Sha1") \o ForkToken \o o \o t : o \in ops, t \in leaves}

C9_StepChildren ==
    /\ \A p \in 1 .. Len(nodes) :
          CASE nodes[p].data.kind = "Fork" -> Len(nodes[p].next) >= 2
            [] nodes[p].data.kind = "Op" -> Len(nodes[p].next) = 1
            [] nodes[p].data.kind = "Attestation" -> Len(nodes[p].next) = 0
    /\ input \in OneChildForks =>
          /\ ~Accepted
          /\ pc # "check_eof"
          /\ pc = "failed" => (result.err.kind = "Io" /\ result.pos = Len(input))
    /\ (Accepted /\ IsPrefix(Header("Sha1") \o ForkToken, input)) =>
          nodes[file.timestamp.first_step].data.kind = "Fork"

\* the only child of a fork has been parsed and the input ends: an Io error
C9_Witness ==
    /\ pc = "failed"
    /\ input \in OneChildForks
    /\ result.err.kind = "Io"
    /\ consumed = Len(input)

----------------------------------------------------------------------------
(* Attestations on their own: a client reads one attestation from a stream *)
(* with Attestation::deserialize and writes what it got with               *)
(* Attestation::serialize.                                                 *)

\* URIs of up to MaxUriLen bytes are tried with every byte value in every place.
MaxUriLen == 3

\* payloads of unknown attestations of up to MaxDataLen bytes
MaxDataLen == 2

\* "a:/Z-_.9", cut to the length wanted
UriBase == <<97, 58, 47, 90, 45, 95, 46, 57>>

UriSamples ==
    {SubSeq(UriBase, 1, n) : n \in 0 .. Len(UriBase)}
      \cup UNION {{[SubSeq(UriBase, 1, n) EXCEPT ![i] = x] : i \in 1 .. n, x \in Byte} :
                     n \in 1 .. MaxUriLen}
      \cup { <<97, 195, 169>>,              \* U+00E9 after "a"
             <<226, 130, 172, 97>>,         \* U+20AC before "a"
             <<240, 159, 152, 128>>,        \* U+1F600
             <<97, 195>>,                   \* a character cut short
             <<224, 128, 128>>,             \* an overlong form
             <<237, 160, 128>>,             \* a surrogate
             <<97, 32, 195>>,               \* a space before a cut character
             Repeat(<<97>>, MAX_URI_LEN),
             Repeat(<<97>>, MAX_URI_LEN + 1) }

\* the length field of a byte string of n < 2^14 bytes, as the format defines it
LengthField(n) == IF n < 128 THEN <<n>> ELSE <<128 + (n % 128), n \div 128>>

\* tags that are not in the catalog: far from it, and one byte from it
UnknownTags ==
    { UnknownTag,
      [BITCOIN_TAG EXCEPT ![TAG_SIZE] = 2],
      [PENDING_TAG EXCEPT ![1] = 132],
      [i \in 1 .. TAG_SIZE |-> 0] }

UnknownPayloads == SeqsUpTo(SampleBytes, MaxDataLen) \cup {Repeat(<<1, 2, 3, 4, 5>>, 40)}

\* an attestation stream in its parts: tag, length field, the declared
\* length n, the bytes after the length field
AttestationStream(tag, len, n, data) == [tag |-> tag, len |-> len, n |-> n, data |-> data]

PendingStreams ==
    {AttestationStream(PENDING_TAG, len, Len(uri), LengthField(Len(uri)) \o uri) :
        uri \in UriSamples, len \in {<<0>>}}
      \cup {AttestationStream(PENDING_TAG, LengthField(Len(uri) + 1), Len(uri),
                              LengthField(Len(uri)) \o uri) :
               uri \in {<<>>, <<97>>, <<97, 32>>, <<255>>}}

UnknownStreams ==
    {AttestationStream(tag, LengthField(Len(data)), Len(data), data \o tail) :
        tag \in UnknownTags, data \in UnknownPayloads, tail \in {<<>>, <<7>>}}
      \cup {AttestationStream(UnknownTag, <<128 + Len(data), 0>>, Len(data), data) :
               data \in SeqsUpTo(SampleBytes, MaxDataLen)}
      \cup {AttestationStream(UnknownTag, LengthField(Len(data) + 1), Len(data) + 1, data) :
               data \in UnknownPayloads}

BitcoinStreams ==
    {AttestationStream(BITCOIN_TAG, len, 0, height) :
        len \in {<<1>>, <<2>>, <<0>>}, height \in {<<0>>, <<172, 2>>, <<128, 0>>, <<128>>}}

AttestationStreams == PendingStreams \cup UnknownStreams \cup BitcoinStreams

InitAttestation ==
    /\ overflow_checks \in BOOLEAN
    /\ pc = "attestation_deserialize"
    /\ arg \in AttestationStreams
    /\ input = arg.tag \o arg.len \o arg.data
    /\ result = None
    /\ output = <<>>
    /\ consumed = 0
    /\ stack = <<>>
    /\ returned = <<>>
    /\ nodes = <<>>
    /\ file = None
    /\ work = <<>>

\* Attestation::deserialize(&mut Deserializer::new(input))
AttestationDeserialize ==
    /\ pc = "attestation_deserialize"
    /\ result' = attestation_deserialize(input, 0)
    /\ pc' = IF result'.ok THEN "attestation_serialize" ELSE "attestation_failed"
    /\ UNCHANGED <<overflow_checks, arg, input, output, parser>>

\* attestation.serialize(&mut Serializer::new(vec![]))
AttestationSerialize ==
    /\ pc = "attestation_serialize"
    /\ output' = attestation_serialize(result.val)
    /\ pc' = "attestation_written"
    /\ UNCHANGED <<overflow_checks, arg, input, result, parser>>

NextAttestation == AttestationDeserialize \/ AttestationSerialize

SpecAttestation == InitAttestation /\ [][NextAttestation]_vars

----------------------------------------------------------------------------
(* Ops on their own: a client has read a tag byte and calls                *)
(* Op::deserialize_with_tag on the rest of a stream, and writes the op it  *)
(* got with Op::serialize.                                                 *)

\* the payload of a stream is cut MaxCut bytes short at most
MaxCut == 1

\* length fields: the bytes, and the length they declare
OpLengths ==
    { [bytes |-> <<0>>, n |-> U64FromNat(0)],
      [bytes |-> <<1>>, n |-> U64FromNat(1)],
      [bytes |-> <<129, 0>>, n |-> U64FromNat(1)],
      [bytes |-> <<2>>, n |-> U64FromNat(2)],
      [bytes |-> <<255, 31>>, n |-> U64FromNat(MAX_OP_LENGTH - 1)],
      [bytes |-> <<128, 32>>, n |-> U64FromNat(MAX_OP_LENGTH)],
      [bytes |-> <<129, 32>>, n |-> U64FromNat(MAX_OP_LENGTH + 1)],
      [bytes |-> <<128, 128, 64>>, n |-> U64Pow2(20)],
      [bytes |-> <<255, 255, 255, 255, 255, 255, 255, 255, 127>>, n |-> U64Ones(63)],
      [bytes |-> <<255, 255, 255, 255, 255, 255, 255, 255, 255, 1>>, n |-> U64Ones(64)] }

\* a stream after the tag byte: a length field and as many bytes as it
\* declares, or fewer, or more
PayloadLens(n) ==
    {k \in {0, 1, 2, 3, MAX_OP_LENGTH - 1, MAX_OP_LENGTH, MAX_OP_LENGTH + 1} :
        \/ k <= 3
        \/ /\ U64Fits(n)
           /\ k - U64ToNat(n) \in (0 - MaxCut) .. 1}

OpStreams ==
    UNION {{[len |-> l, payload |-> Repeat(<<fill>>, m)] :
               fill \in {0, 170}, m \in PayloadLens(l.n)} : l \in OpLengths}

InitOp ==
    /\ overflow_checks \in BOOLEAN
    /\ pc = "op_deserialize_with_tag"
    /\ \E tag \in Byte : \E stream \in OpStreams :
          /\ tag \notin {240, 241} => (stream.len.bytes = <<2>> /\ Len(stream.payload) = 2)
          /\ arg = [tag |-> tag, len |-> stream.len.n]
          /\ input = stream.len.bytes \o stream.payload
    /\ result = None
    /\ output = <<>>
    /\ consumed = 0
    /\ stack = <<>>
    /\ returned = <<>>
    /\ nodes = <<>>
    /\ file = None
    /\ work = <<>>

\* Op::deserialize_with_tag(&mut Deserializer::new(input), tag)
OpDeserializeWithTag ==
    /\ pc = "op_deserialize_with_tag"
    /\ result' = deserialize_with_tag(input, 0, arg.tag)
    /\ pc' = IF result'.ok THEN "op_serialize" ELSE "op_failed"
    /\ UNCHANGED <<overflow_checks, arg, input, output, parser>>

\* op.serialize(&mut Serializer::new(vec![]))
OpSerialize ==
    /\ pc = "op_serialize"
    /\ output' = op_serialize(result.val)
    /\ pc' = "op_written"
    /\ UNCHANGED <<overflow_checks, arg, input, result, parser>>

NextOp == OpDeserializeWithTag \/ OpSerialize

SpecOp == InitOp /\ [][NextOp]_vars

----------------------------------------------------------------------------
\* the stream of arg carries one of the two tags of the catalog
CatalogTag == arg.tag \in {BITCOIN_TAG, PENDING_TAG}

\* the bytes after the length field of the stream of arg
AfterLength(n) == SubSeq(arg.data, 1, n)

(* C7: a tag that is neither the Bitcoin nor the Pending tag gives an      *)
(* Unknown attestation with that tag and with exactly the declared number  *)
(* of bytes after the length field as its payload; serialize writes the    *)
(* tag, the length and the payload again.                                  *)
C7_UnknownPreserved ==
    (pc # "attestation_deserialize" /\ ~CatalogTag) =>
        /\ result.ok <=> arg.n <= Len(arg.data)
        /\ result.ok =>
              /\ result.val = Unknown(arg.tag, AfterLength(arg.n))
              /\ result.pos = TAG_SIZE + Len(arg.len) + arg.n
        /\ ~result.ok => (result.err.kind = "Io" /\ pc = "attestation_failed")
        /\ pc = "attestation_written" =>
              output = arg.tag \o LengthField(arg.n) \o AfterLength(arg.n)

\* a tag one byte from the Bitcoin tag with a payload of two bytes is written again
C7_Witness ==
    /\ pc = "attestation_written"
    /\ arg.tag = [BITCOIN_TAG EXCEPT ![TAG_SIZE] = 2]
    /\ result.val.kind = "Unknown"
    /\ Len(result.val.data) = MaxDataLen
    /\ output = SubSeq(input, 1, Len(output))

\* the byte values a URI may be made of
PermittedUriBytes ==
    (97 .. 122) \cup (65 .. 90) \cup (48 .. 57) \cup {46, 45, 95, 47, 58}

\* the stream of arg is a pending attestation with all of its URI, of a
\* length the parser takes
WholePendingUri ==
    /\ arg.tag = PENDING_TAG
    /\ arg.n <= MAX_URI_LEN
    /\ Len(arg.data) = Len(LengthField(arg.n)) + arg.n

PendingUri == SubSeq(arg.data, Len(LengthField(arg.n)) + 1, Len(arg.data))

HasForbiddenByte(uri) == \E i \in 1 .. Len(uri) : uri[i] \notin PermittedUriBytes

(* C8 as stated: a pending URI with a byte outside the permitted set, any  *)
(* of 0x00..0xff, fails with InvalidUriChar.                               *)
C8_InvalidUriChar ==
    (pc # "attestation_deserialize" /\ WholePendingUri /\ HasForbiddenByte(PendingUri)) =>
        /\ ~result.ok
        /\ result.err.kind = "InvalidUriChar"

(* C8: a pending URI with a byte outside the permitted set is rejected,    *)
(* with InvalidUriChar and the first forbidden character when the URI is   *)
(* well-formed UTF-8 and with Utf8 when it is not; an accepted URI has     *)
(* permitted bytes only.                                                   *)
C8_ForbiddenUriRejected ==
    (pc # "attestation_deserialize" /\ WholePendingUri) =>
        /\ HasForbiddenByte(PendingUri) =>
              /\ ~result.ok
              /\ pc = "attestation_failed"
              /\ IF from_utf8(PendingUri).ok
                 THEN result.err.kind = "InvalidUriChar"
                 ELSE result.err.kind = "Utf8"
              /\ (\A i \in 1 .. Len(PendingUri) : PendingUri[i] < 128) =>
                    /\ result.err.kind = "InvalidUriChar"
                    /\ result.err.info \notin PermittedUriBytes
                    /\ \E i \in 1 .. Len(PendingUri) :
                          /\ PendingUri[i] = result.err.info
                          /\ \A j \in 1 .. (i - 1) : PendingUri[j] \in PermittedUriBytes
        /\ result.ok =>
              /\ result.val = Pending(PendingUri)
              /\ ~HasForbiddenByte(PendingUri)

\* a URI with '?' in its last place has been rejected for that character
C8_Witness ==
    /\ pc = "attestation_failed"
    /\ WholePendingUri
    /\ Len(PendingUri) = MaxUriLen
    /\ PendingUri[MaxUriLen] = 63
    /\ result.err = Err("InvalidUriChar", 63)

----------------------------------------------------------------------------
OpTags == {2, 3, 8, 240, 241, 242, 243}

\* the length field of the stream is whole: the input goes on after it
LengthBytes == CHOOSE l \in OpLengths : l.n = arg.len /\ IsPrefix(l.bytes, input)

(* C10: Append and Prepend take a payload of 1 to MAX_OP_LENGTH bytes: a   *)
(* declared length of 0 or above MAX_OP_LENGTH is a BadLength error, and   *)
(* the payload of an op that was read has the declared length, in          *)
(* 1..MAX_OP_LENGTH; a tag that is no op tag is BadOpTag with no byte read.*)
C10_OpPayloadLength ==
    pc # "op_deserialize_with_tag" =>
        /\ arg.tag \notin OpTags => result = Fail(Err("BadOpTag", arg.tag), 0)
        /\ arg.tag \in {240, 241} =>
              /\ (U64IsZero(arg.len) \/ U64Gt(arg.len, MAX_OP_LENGTH)) =>
                    /\ ~result.ok
                    /\ result.err =
                          Err("BadLength", [min |-> 1, max |-> MAX_OP_LENGTH, val |-> arg.len])
              /\ result.ok =>
                    /\ Len(result.val.data) \in 1 .. MAX_OP_LENGTH
                    /\ U64FromNat(Len(result.val.data)) = arg.len
                    /\ result.val.kind = (IF arg.tag = 240 THEN "Append" ELSE "Prepend")
                    /\ result.val.data =
                          SubSeq(input, result.pos - Len(result.val.data) + 1, result.pos)
              /\ (~U64IsZero(arg.len) /\ ~U64Gt(arg.len, MAX_OP_LENGTH)) =>
                    (result.ok <=> Len(input) >= Len(LengthBytes.bytes) + U64ToNat(arg.len))
        /\ arg.tag \in OpTags \ {240, 241} => (result.ok /\ result.pos = 0)

\* payloads of MAX_OP_LENGTH bytes are read, and lengths on both sides are refused
C10_Witness ==
    /\ pc = "op_written"
    /\ arg.tag = 241
    /\ Len(result.val.data) = MAX_OP_LENGTH
    /\ output = <<241>> \o input

----------------------------------------------------------------------------
(* Op::execute on its own: a client executes an op on a byte string, and   *)
(* once more on the same byte string.                                      *)

\* byte strings of up to MaxExecLen bytes are executed on
MaxExecLen == 3

ExecuteInputs ==
    SeqsUpTo({1, 15, 171, 255}, MaxExecLen)
        \cup {<<1, 2, 3>>, SampleDigest("Sha1"), SampleDigest("Sha256")}

ExecuteOps ==
    {UnaryOp(kind) : kind \in {"Sha1", "Sha256", "Ripemd160", "Hexlify", "Reverse"}}
        \cup {BinaryOp(kind, data) :
                 kind \in {"Append", "Prepend"},
                 data \in {<<170>>, <<170, 187>>, Repeat(<<9>>, MAX_OP_LENGTH)}}

InitExecute ==
    /\ overflow_checks \in BOOLEAN
    /\ pc = "execute"
    /\ arg \in ExecuteOps
    /\ input \in ExecuteInputs
    /\ result = None
    /\ output = <<>>
    /\ consumed = 0
    /\ stack = <<>>
    /\ returned = <<>>
    /\ nodes = <<>>
    /\ file = None
    /\ work = <<>>

\* op.execute(&input)
Execute ==
    /\ pc = "execute"
    /\ output' = execute(arg, input)
    /\ pc' = "executed"
    /\ UNCHANGED <<overflow_checks, arg, input, result, parser>>

\* op.execute(&input) a second time
ExecuteAgain ==
    /\ pc = "executed"
    /\ result' = Ok(execute(arg, input), 0)
    /\ pc' = "executed_again"
    /\ UNCHANGED <<overflow_checks, arg, input, output, parser>>

NextExecute == Execute \/ ExecuteAgain

SpecExecute == InitExecute /\ [][NextExecute]_vars

\* the lowercase hex digit of a nibble
HexDigit(d) == IF d < 10 THEN 48 + d ELSE 87 + d

----------------------------------------------------------------------------
(* C12: the digest of a file from_reader returns has the length of its     *)
(* digest type, 20 for Sha1, 32 for Sha256 and 20 for Ripemd160, and is    *)
(* the start_digest of its timestamp.                                      *)
C12_DigestLength ==
    /\ pc \in {"timestamp", "step", "check_eof"} \/ Accepted =>
          Len(file.digest) = (CASE file.digest_type = "Sha1" -> 20
                                [] file.digest_type = "Sha256" -> 32
                                [] file.digest_type = "Ripemd160" -> 20)
    /\ Accepted =>
          /\ result.ok
          /\ result.val = file
          /\ file.timestamp.start_digest = file.digest

\* a Sha256 file with a digest of 32 bytes has been returned
C12_Witness ==
    /\ pc = "to_writer"
    /\ file.digest_type = "Sha256"
    /\ Len(file.timestamp.start_digest) = 32
    /\ input = Header("Sha256") \o BitcoinLeaf(<<1>>, <<0>>)

----------------------------------------------------------------------------
(* Digest types on their own (the digest_type_rt test of ser.rs): a client *)
(* maps a tag byte to a digest type, or a digest type to its tag and back. *)

DigestTypes == {"Sha1", "Sha256", "Ripemd160"}

InitDigestType ==
    /\ overflow_checks \in BOOLEAN
    /\ \/ (pc = "from_tag" /\ arg \in Byte)
       \/ (pc = "to_tag" /\ arg \in DigestTypes)
    /\ input = <<>>
    /\ result = None
    /\ output = <<>>
    /\ consumed = 0
    /\ stack = <<>>
    /\ returned = <<>>
    /\ nodes = <<>>
    /\ file = None
    /\ work = <<>>

\* DigestType::from_tag(tag)
FromTag ==
    /\ pc = "from_tag"
    /\ result' = from_tag(arg)
    /\ pc' = "from_tag_done"
    /\ UNCHANGED <<overflow_checks, arg, input, output, parser>>

\* digest_type.to_tag()
ToTag ==
    /\ pc = "to_tag"
    /\ output' = <<to_tag(arg)>>
    /\ pc' = "to_tag_done"
    /\ UNCHANGED <<overflow_checks, arg, input, result, parser>>

\* DigestType::from_tag(tag) on the tag to_tag returned
FromWrittenTag ==
    /\ pc = "to_tag_done"
    /\ result' = from_tag(output[1])
    /\ pc' = "round_trip_done"
    /\ UNCHANGED <<overflow_checks, arg, input, output, parser>>

NextDigestType == FromTag \/ ToTag \/ FromWrittenTag

SpecDigestType == InitDigestType /\ [][NextDigestType]_vars

(* C13: from_tag of the tag of a digest type is that digest type; from_tag *)
(* takes 0x02 as Sha1, 0x03 as Ripemd160 and 0x08 as Sha256, and every     *)
(* other byte t is BadDigestTag(t).                                        *)
C13_DigestTags ==
    /\ pc = "from_tag_done" =>
          IF arg \in {2, 3, 8}
          THEN /\ result.ok
               /\ result.val = (CASE arg = 2 -> "Sha1"
                                  [] arg = 3 -> "Ripemd160"
                                  [] arg = 8 -> "Sha256")
          ELSE /\ ~result.ok
               /\ result.err = Err("BadDigestTag", arg)
    /\ pc = "round_trip_done" =>
          /\ result.ok
          /\ result.val = arg

\* Ripemd160 has gone to its tag 0x03 and back
C13_Witness ==
    /\ pc = "round_trip_done"
    /\ arg = "Ripemd160"
    /\ output = <<3>>
    /\ result.val = "Ripemd160"

----------------------------------------------------------------------------
\* a pending attestation has been read and written
PendingWritten == pc = "attestation_written" /\ result.val.kind = "Pending"

(* C14 as stated: serialize of Pending{uri} writes the tag, the length of  *)
(* the URI and the URI, with no other framing.                             *)
C14_PendingUnframed ==
    PendingWritten =>
        output = PENDING_TAG \o LengthField(Len(result.val.uri)) \o result.val.uri

(* C14: serialize of Pending{uri} writes the tag and write_bytes of a      *)
(* payload that is write_bytes(uri): the tag, the length of the framed     *)
(* URI, the length of the URI, the URI.                                    *)
C14_PendingFramedTwice ==
    PendingWritten =>
        LET uri == result.val.uri
            framed == LengthField(Len(uri)) \o uri
        IN  output = PENDING_TAG \o LengthField(Len(framed)) \o framed

\* a URI of MAX_URI_LEN bytes has been written with two-byte lengths
C14_Witness ==
    /\ PendingWritten
    /\ Len(result.val.uri) = MAX_URI_LEN
    /\ Len(output) = TAG_SIZE + 2 + 2 + MAX_URI_LEN

\* the length the length field of the stream of arg declares
DeclaredLength ==
    IF Len(arg.len) = 1 THEN arg.len[1] ELSE (arg.len[1] - 128) + 128 * arg.len[2]

(* C15: a successful Attestation::deserialize has advanced the stream by   *)
(* 8 + len(varint L) + L bytes, for the L of the length field, whatever    *)
(* the kind of the attestation.                                            *)
C15_DeclaredLengthRead ==
    (pc # "attestation_deserialize" /\ result.ok) =>
        result.pos = TAG_SIZE + Len(arg.len) + DeclaredLength

----------------------------------------------------------------------------
\* the streams of Inputs in which RECURSION_LIMIT forks or ops are nested, so
\* that the step under them is step RECURSION_LIMIT + 1 of its path
DeepInputs ==
    {Header("Sha1") \o t :
        t \in {Repeat(ForkToken, RECURSION_LIMIT),
               Repeat(ForkToken, RECURSION_LIMIT + 1),
               OpChain(RECURSION_LIMIT) \o BitcoinLeaf(<<1>>, <<0>>)}}

LongestChain == Header("Sha1") \o OpChain(RECURSION_LIMIT - 1) \o BitcoinLeaf(<<1>>, <<0>>)

WidestFork == Header("Sha1") \o WideFork(RECURSION_LIMIT + 2)

(* C16: the call at depth d has a budget of RECURSION_LIMIT - d, the same  *)
(* for every child of a fork; a path of RECURSION_LIMIT steps and a fork   *)
(* of more than RECURSION_LIMIT children are parsed, and StackOverflow is  *)
(* returned for the streams with a path of RECURSION_LIMIT + 1 steps and   *)
(* for no other.                                                           *)
C16_BudgetExact ==
    /\ \A i \in 1 .. Len(stack) : stack[i].recursion_limit = RECURSION_LIMIT - (i - 1)
    /\ (pc = "failed" /\ result.err.kind = "StackOverflow") <=>
          (pc = "failed" /\ input \in DeepInputs)
    /\ (pc = "failed" /\ input \in DeepInputs) =>
          result.pos = Len(Header("Sha1")) + RECURSION_LIMIT
    /\ (input \in {LongestChain, WidestFork} /\ arg.how = "first") => pc # "failed"
    /\ (input = WidestFork /\ Accepted) =>
          Len(nodes[file.timestamp.first_step].next) = RECURSION_LIMIT + 2
    /\ (input = LongestChain /\ Accepted) => Len(nodes) = RECURSION_LIMIT

\* the chain of RECURSION_LIMIT steps has been parsed and written
C16_Witness ==
    /\ pc = "written"
    /\ input = LongestChain
    /\ output = input
    /\ Len(nodes) = RECURSION_LIMIT

----------------------------------------------------------------------------
(* C17: the digest of the file, the digest every call of the parser is     *)
(* given and the output of every step have at most MAX_OP_LENGTH + 64      *)
(* bytes.                                                                  *)
C17_DigestWidth ==
    /\ \A i \in 1 .. Len(stack) :
          /\ Len(stack[i].input_digest) <= MAX_OP_LENGTH + 64
          /\ Len(stack[i].output_digest) <= MAX_OP_LENGTH + 64
    /\ \A p \in 1 .. Len(nodes) : Len(nodes[p].output) <= MAX_OP_LENGTH + 64

----------------------------------------------------------------------------
\* the input of read_uint is one encoding: continuation bytes and a last byte
OneEncoding ==
    /\ input # <<>>
    /\ input[Len(input)] < 128
    /\ \A i \in 1 .. (Len(input) - 1) : input[i] >= 128

\* bit j (from 1, the lowest) of the 7-bit group of byte b
GroupBit(b, j) == (b \div (2 ^ (j - 1))) % 2

(* C18: read_uint returns the sum of (b_i & 0x7f) * 128^i over the bytes   *)
(* of an encoding of any length: every bit of every group is a bit of the  *)
(* result, and no group has a bit the result has no place for.             *)
C18_ExactAccumulation ==
    (pc = "raw_done" /\ OneEncoding) =>
        /\ result.ok
        /\ result.pos = Len(input)
        /\ \A i \in 1 .. Len(input) : \A j \in 1 .. 7 :
              IF 7 * (i - 1) + j <= WordBits
              THEN result.val[7 * (i - 1) + j] = GroupBit(input[i], j)
              ELSE GroupBit(input[i], j) = 0

----------------------------------------------------------------------------
\* the bytes from index 32 up to consumed are a form of the integer 1
VersionRead ==
    /\ consumed > Len(MAGIC)
    /\ input[Len(MAGIC) + 1] % 128 = 1
    /\ \A k \in (Len(MAGIC) + 2) .. consumed : input[k] % 128 = 0

(* C19: from_reader checks magic, version, digest type, digest, tree and   *)
(* end of input in this order, each where the one before ended, and        *)
(* returns the error of the first check that fails, with no byte read      *)
(* after the field that failed and with no file.                           *)
C19_CheckOrder ==
    /\ pc = "read_magic" => consumed = 0
    /\ pc = "read_version" => (consumed = Len(MAGIC) /\ IsPrefix(MAGIC, input))
    /\ pc = "digest_type" => (IsPrefix(MAGIC, input) /\ VersionRead)
    /\ pc = "digest" => (input[consumed] \in {2, 3, 8} /\ file.digest = <<>>)
    /\ pc = "timestamp" =>
          /\ file.digest = SubSeq(input, consumed - Len(file.digest) + 1, consumed)
          /\ input[consumed - Len(file.digest)] \in {2, 3, 8}
          /\ nodes = <<>>
    /\ pc = "check_eof" => (stack = <<>> /\ file.timestamp.first_step = Len(nodes))
    /\ Accepted => (result.ok /\ consumed = Len(input))
    /\ pc = "failed" =>
          /\ ~result.ok
          /\ file = NoFile
          /\ nodes = <<>>
          /\ result.pos <= Len(input)
          /\ Len(input) < Len(MAGIC) =>
                (result.err.kind = "Io" /\ result.pos = Len(input))
          /\ (Len(input) >= Len(MAGIC) /\ ~IsPrefix(MAGIC, input)) =>
                (result.err.kind = "BadMagic" /\ result.pos = Len(MAGIC))
          /\ (IsPrefix(MAGIC, input) /\ Len(input) > Len(MAGIC)
                /\ input[Len(MAGIC) + 1] < 128 /\ input[Len(MAGIC) + 1] # VERSION) =>
                (result.err.kind = "BadVersion" /\ result.pos = Len(MAGIC) + 1)
          /\ (IsPrefix(MAGIC \o <<VERSION>>, input) /\ Len(input) > Len(MAGIC) + 1
                /\ input[Len(MAGIC) + 2] \notin {2, 3, 8}) =>
                (result.err.kind = "BadDigestTag" /\ result.pos = Len(MAGIC) + 2)
          /\ result.err.kind \in {"BadOpTag", "StackOverflow", "BadLength", "TrailingBytes"} =>
                \E digest_type \in DigestTypes :
                    /\ IsPrefix(MAGIC, input)
                    /\ result.pos > Len(Header(digest_type))
          /\ arg.how = "trailing" =>
                (result.err.kind = "TrailingBytes" /\ result.pos = Len(arg.before) + 1)

\* a wrong version before a wrong digest type and a wrong op tag: BadVersion
C19_Witness ==
    /\ pc = "failed"
    /\ input = MAGIC \o <<2, 9>> \o SampleDigest("Sha1") \o <<85>>
    /\ result.err.kind = "BadVersion"
    /\ result.pos = Len(MAGIC) + 1

----------------------------------------------------------------------------
(* C20: from_reader takes the bytes c that to_writer wrote for an accepted *)
(* b and returns a file equal to the one it returned for b, and to_writer  *)
(* writes c again for it, also when c differs from b.                      *)
C20_CanonicalForm ==
    arg.how = "again" =>
        /\ pc \notin {"failed", "panicked"}
        /\ (pc = "check_eof" \/ Accepted) => nodes = arg.parsed.nodes
        /\ Accepted =>
              /\ result.ok
              /\ result.val = arg.parsed.file
        /\ pc = "written" => output = input

\* bytes that differ from the accepted input have been read and written again
C20_Witness ==
    /\ arg.how = "again"
    /\ pc = "written"
    /\ input # arg.before
    /\ output = input
    /\ \E p \in 1 .. Len(nodes) : nodes[p].data.kind = "Op" /\ nodes[p].data.op.kind = "Prepend"

\* the tree of step p of the arena `steps`, as a value
RECURSIVE StepTree(_, _)
StepTree(steps, p) ==
    [data |-> steps[p].data,
     output |-> steps[p].output,
     next |-> [k \in 1 .. Len(steps[p].next) |-> StepTree(steps, steps[p].next[k])]]

\* the tree with the children of every fork that is the last child of a fork
\* put in its place
RECURSIVE Flattened(_)
Flattened(tree) ==
    LET next == [k \in 1 .. Len(tree.next) |-> Flattened(tree.next[k])]
        n == Len(tree.next)
    IN  IF tree.data.kind = "Fork" /\ n > 0 /\ next[n].data.kind = "Fork"
        THEN [tree EXCEPT !.next = SubSeq(next, 1, n - 1) \o next[n].next]
        ELSE [tree EXCEPT !.next = next]

\* some fork of the arena has a fork as its last child
ForkLast(steps) ==
    \E p \in 1 .. Len(steps) :
        /\ steps[p].data.kind = "Fork"
        /\ steps[p].next # <<>>
        /\ steps[steps[p].next[Len(steps[p].next)]].data.kind = "Fork"

\* C21: in the trees the parser builds, the last child of a fork is never a
\* fork; a tree built by hand is written and the bytes are parsed: they are
\* accepted, the tree parsed is the built one with every fork that is a last
\* child replaced by its children, it differs from the built one exactly when
\* some fork has a fork as its last child, and it is written as the same bytes.
C21_ForkLastChild ==
    /\ arg.how # "built" => ~ForkLast(nodes)
    /\ arg.how = "reparsed" =>
          /\ pc \notin {"failed", "panicked"}
          /\ Accepted =>
                LET built == StepTree(arg.parsed.nodes, arg.parsed.file.timestamp.first_step)
                    parsed == StepTree(nodes, file.timestamp.first_step)
                IN  /\ parsed = Flattened(built)
                    /\ ForkLast(arg.parsed.nodes) <=> parsed # built
                    /\ [file EXCEPT !.timestamp.first_step = 0]
                         = [arg.parsed.file EXCEPT !.timestamp.first_step = 0]
          /\ pc = "written" => output = input

\* Fork[a, Fork[b, Fork[c, d]]] was written and its bytes parsed as a fork of
\* four leaves
C21_Witness ==
    /\ arg.how = "reparsed"
    /\ pc = "written"
    /\ ForkLast(arg.parsed.nodes)
    /\ Len(arg.parsed.nodes[arg.parsed.file.timestamp.first_step].next) = 2
    /\ nodes[file.timestamp.first_step].data.kind = "Fork"
    /\ Len(nodes[file.timestamp.first_step].next) = 4
    /\ \A k \in 1 .. 4 :
          nodes[nodes[file.timestamp.first_step].next[k]].data.kind = "Attestation"

\* a step of a call of from_reader
FromReaderStep ==
    \/ FromReader
    \/ ReadMagic
    \/ ReadVersion
    \/ ReadDigestType
    \/ ReadDigest
    \/ TimestampDeserialize
    \/ StepStackOverflow
    \/ StepEof
    \/ StepAttestation
    \/ StepFork
    \/ StepOp
    \/ ForkPush
    \/ ForkReturn
    \/ OpReturn
    \/ TimestampReturn
    \/ CheckEof

\* inputs with a varint the code has no room for: an Unknown attestation of
\* length 2^63, and a version of eleven bytes
OverflowInputs ==
    { Header("Sha1") \o <<0>> \o UnknownTag \o Repeat(<<128>>, 9) \o <<1>>,
      MAGIC \o Repeat(<<128>>, 10) \o <<1, 2>> \o SampleDigest("Sha1")
          \o BitcoinLeaf(<<1>>, <<0>>) }

InitTerminates ==
    /\ overflow_checks \in BOOLEAN
    /\ pc = "from_reader"
    /\ arg = First
    /\ input \in Inputs \cup OverflowInputs
    /\ consumed = 0
    /\ stack = <<>>
    /\ returned = <<>>
    /\ nodes = <<>>
    /\ file = NoFile
    /\ result = None
    /\ work = <<>>
    /\ output = <<>>

\* the guards of the steps of from_reader: the call has not returned and the
\* statement it is at can run. Every step is total on its guard (a read that
\* fails returns the error), so this is ENABLED <<FromReaderStep>>_vars.
CanStep ==
    \/ pc \in {"from_reader", "read_magic", "read_version", "digest_type", "digest",
               "timestamp", "check_eof"}
    \/ /\ pc = "step"
       /\ IF returned = <<>>
          THEN stack # <<>> /\ Top.at = "call"
          ELSE stack = <<>> \/ Top.at \in {"fork_loop", "fork_last", "op"}

\* from_reader runs on the client's thread and waits for nothing but its
\* reader, which holds the whole input: the call is entered, and a call that
\* can take a step takes it. The second conjunct is WF_vars(FromReaderStep)
\* with its ENABLED written as CanStep.
SpecTerminates ==
    /\ InitTerminates
    /\ [][FromReaderStep]_vars
    /\ WF_vars(FromReader)
    /\ ([]<>(~CanStep) \/ []<><<FromReaderStep>>_vars)

\* what is left of the call: the statements of from_reader still to run, the
\* calls of deserialize_step_recurse on the stack (one that holds a tag already
\* read counts for the read as well) and four for each byte not yet read
Variant ==
    4 * (Len(input) - consumed)
      + 2 * (CASE pc = "from_reader" -> 8
               [] pc = "read_magic" -> 7
               [] pc = "read_version" -> 6
               [] pc = "digest_type" -> 5
               [] pc = "digest" -> 4
               [] pc = "timestamp" -> 3
               [] pc = "step" -> 2
               [] pc = "check_eof" -> 1
               [] OTHER -> 0)
      + Len(stack)
      + (IF stack # <<>> /\ Top.at = "call" /\ Top.tag # <<>> THEN 2 ELSE 0)

\* the reader only moves forward and never past the input, and every step of
\* the call lowers Variant: a call on n bytes takes at most 4 * n + 16 steps
ReadsForward ==
    [][FromReaderStep =>
          /\ consumed <= consumed'
          /\ consumed' <= Len(input)
          /\ Variant' < Variant
          /\ Variant' >= 0]_vars

\* every step built took a byte of the tree to read
TreeWithinInput ==
    (pc \in {"step", "check_eof"} \/ Accepted) =>
        Len(nodes) + Len(MAGIC) + 2 + Len(file.digest) <= consumed

\* the call is never stuck and it ends
CallEnds ==
    /\ [](pc \notin {"failed", "to_writer"} => CanStep)
    /\ (pc = "from_reader") ~> Returned

\* C22: every call of from_reader ends, and it ends with a file or with an
\* Error; the reader moves forward only and within the input; a returned tree
\* has at most as many steps as the input has bytes.
C22_ParsingTerminates ==
    /\ ReadsForward
    /\ []TreeWithinInput
    /\ CallEnds
    /\ [](pc = "failed" => result.err.kind # "panic")

=============================================================================
